---- MODULE Spec2Model ----
(***************************************************************************)
(* Model of TransposeAugmenter (src/augmentation.py): the vocabulary       *)
(* classifier built by __init__, find_optimal_transpose, transpose_tokens, *)
(* augment_sequence and the per-line loop of process_jsonl_file.           *)
(*                                                                         *)
(* A token string is a record [tag, num, label]: tag is the text before    *)
(* the first underscore, num the decimal digits of the segment after it    *)
(* (for the Pitch and PitchDrum families), label that segment as text (for *)
(* every other family).  int() and the f-string are modelled digit by      *)
(* digit, so "Pitch_060" and "Pitch_60" are different keys with the same   *)
(* parsed value.  Signs are not modelled: every pitch of a vocabulary is   *)
(* a natural number.                                                       *)
(***************************************************************************)
EXTENDS Integers, Sequences, FiniteSets, TLC

VARIABLES
    vocab,              \* self.vocab: the items (token string, idx) in file order
    token_to_info,      \* self.token_to_info: idx -> (type, value)
    transpose_values,   \* self.transpose_values
    max_samples,        \* the argument of process_jsonl_file; 0 for None
    pc,                 \* "loop" while the input file is read, then "done"
    line_num,           \* lines of the input file read so far
    data,               \* the record of the last line that was parsed
    tokens,             \* the token list of the record, or of the caller
    optimal_transpose,  \* find_optimal_transpose of the last processed record
    augmented_results,  \* what augment_sequence returned for that record
    output_files,       \* base offset -> the records written to its file
    total_processed,
    total_augmented,
    call                \* the method a caller called on tokens and its result

vars == <<vocab, token_to_info, transpose_values, max_samples,
          pc, line_num, data, tokens, optimal_transpose, augmented_results,
          output_files, total_processed, total_augmented, call>>

selfVars == <<vocab, token_to_info, transpose_values>>

fileVars == <<max_samples, pc, line_num, data, optimal_transpose,
              augmented_results, output_files, total_processed, total_augmented>>

(***************************************************************************)
(* Bounds of the model.                                                    *)
(***************************************************************************)
\* longest token sequence a caller passes to the engine directly
MaxLen == 3
\* number of lines of the input JSONL file
MaxLines == 2

(***************************************************************************)
(* Program constants.                                                      *)
(***************************************************************************)
min_pitch == 21
max_pitch == 109
mid_pitch == (min_pitch + max_pitch) \div 2

(***************************************************************************)
(* Token strings, int() and f"Pitch_{n}".                                  *)
(***************************************************************************)
Pitch(ds) == [tag |-> "Pitch", num |-> ds, label |-> ""]
PitchDrum(ds) == [tag |-> "PitchDrum", num |-> ds, label |-> ""]
Chord(l) == [tag |-> "Chord", num |-> <<>>, label |-> l]
Other(t, l) == [tag |-> t, num |-> <<>>, label |-> l]

RECURSIVE ParseInt(_)
\* int(text) of a string of decimal digits: leading zeros are dropped
ParseInt(ds) ==
    IF ds = <<>> THEN 0
    ELSE 10 * ParseInt(SubSeq(ds, 1, Len(ds) - 1)) + ds[Len(ds)]

RECURSIVE FormatInt(_)
\* the digits of f"{n}" for n >= 0: no leading zeros
FormatInt(n) ==
    IF n < 10 THEN <<n>> ELSE FormatInt(n \div 10) \o <<n % 10>>

\* f"Pitch_{new_pitch}"
PitchTokenName(new_pitch) == Pitch(FormatInt(new_pitch))

(***************************************************************************)
(* The vocabulary: the (token, idx) items of the loaded JSON object in     *)
(* file order.  Keys are distinct; ids need not be.                        *)
(***************************************************************************)
Item(name, idx) == [name |-> name, idx |-> idx]

\* new_token_name in self.vocab
InVocab(v, name) == \E i \in 1..Len(v) : v[i].name = name

\* self.vocab[new_token_name]
VocabId(v, name) == v[CHOOSE i \in 1..Len(v) : v[i].name = name].idx

\* the example of the specification's end-to-end test
VocabExample ==
    << Item(Pitch(<<6,0>>), 0), Item(Pitch(<<6,1>>), 1), Item(Pitch(<<5,9>>), 2),
       Item(Chord("maj"), 3), Item(Other("Bar", "None"), 4) >>

\* pitches around mid_pitch, two drum pitches and a chord
VocabCentre ==
    << Item(Pitch(<<6,4>>), 0), Item(Pitch(<<6,5>>), 1), Item(Pitch(<<6,6>>), 2),
       Item(Pitch(<<6,7>>), 3), Item(PitchDrum(<<3,6>>), 4), Item(Chord("min"), 5),
       Item(PitchDrum(<<6,5>>), 6) >>

\* pitches at and beyond the two ends of the allowed range
VocabEdges ==
    << Item(Pitch(<<2,0>>), 0), Item(Pitch(<<2,1>>), 1), Item(Pitch(<<2,2>>), 2),
       Item(Pitch(<<1,0,8>>), 3), Item(Pitch(<<1,0,9>>), 4), Item(Pitch(<<1,1,0>>), 5) >>

\* two keys that int() parses to the same pitch
VocabZeroPadded ==
    << Item(Pitch(<<6,0>>), 0), Item(Pitch(<<0,6,0>>), 1), Item(Pitch(<<6,1>>), 2),
       Item(Other("Bar", "None"), 3), Item(PitchDrum(<<6,1>>), 4) >>

\* two keys with the same id: the later item overwrites the classification
VocabSharedId ==
    << Item(Pitch(<<6,0>>), 0), Item(Pitch(<<6,1>>), 1), Item(Other("Bar", "None"), 0),
       Item(Pitch(<<6,2>>), 2) >>

\* pitches far outside the allowed range, 88 and 89 apart
VocabWide ==
    << Item(Pitch(<<0>>), 0), Item(Pitch(<<8,8>>), 1), Item(Pitch(<<8,9>>), 2),
       Item(Pitch(<<1,2,7>>), 3), Item(Pitch(<<3,9>>), 4), Item(PitchDrum(<<0>>), 5) >>

Vocabularies ==
    {VocabExample, VocabCentre, VocabEdges, VocabZeroPadded, VocabSharedId, VocabWide}

\* ids a token sequence may hold: every id of the vocabularies, and 7, which
\* none of them assigns
TokenIds == 0..7

(***************************************************************************)
(* __init__: transpose_values and the table token_to_info.                 *)
(***************************************************************************)
\* list(range(transpose_range[0], transpose_range[1] + 1))
RangeList(lo, hi) == [i \in 1..(IF hi >= lo THEN hi - lo + 1 ELSE 0) |-> lo + i - 1]

DefaultRange == <<-5, 6>>

TransposeRanges == {DefaultRange, <<-1, 1>>, <<0, 2>>}

\* TokenInfo with the first test written startswith('Pitch'): a drum pitch is
\* classified as a pitch
TokenInfoDrumAsPitch(name) ==
    IF name.tag = "Pitch" \/ name.tag = "PitchDrum"
    THEN [type |-> "pitch", value |-> ParseInt(name.num), chord |-> ""]
    ELSE IF name.tag = "Chord"
    THEN [type |-> "chord", value |-> -1, chord |-> name.label]
    ELSE [type |-> "other", value |-> -1, chord |-> ""]

\* the (type, value) pair of one token string; value is the parsed pitch for
\* the pitch families, chord holds the chord type, and None is value -1, chord ""
TokenInfo(name) ==
    IF name.tag = "Pitch"
    THEN [type |-> "pitch", value |-> ParseInt(name.num), chord |-> ""]
    ELSE IF name.tag = "PitchDrum"
    THEN [type |-> "drum_pitch", value |-> ParseInt(name.num), chord |-> ""]
    ELSE IF name.tag = "Chord"
    THEN [type |-> "chord", value |-> -1, chord |-> name.label]
    ELSE [type |-> "other", value |-> -1, chord |-> ""]

RECURSIVE BuildTokenInfo(_, _)
\* the loop over self.vocab.items(): a later item replaces an earlier one
\* that has the same idx
BuildTokenInfo(v, n) ==
    IF n = 0 THEN <<>>
    ELSE LET before == BuildTokenInfo(v, n - 1)
         IN  (v[n].idx :> TokenInfo(v[n].name)) @@ before

(***************************************************************************)
(* find_optimal_transpose                                                  *)
(***************************************************************************)
\* token in self.token_to_info and its type is 'pitch'
IsPitchToken(token) ==
    /\ token \in DOMAIN token_to_info
    /\ token_to_info[token].type = "pitch"

RECURSIVE CollectPitchesWithDrums(_, _)
\* CollectPitches without the test of the type: drum pitches are collected too
CollectPitchesWithDrums(toks, n) ==
    IF n = 0 THEN <<>>
    ELSE LET before == CollectPitchesWithDrums(toks, n - 1)
             token == toks[n]
         IN  IF token \in DOMAIN token_to_info
             THEN IF token_to_info[token].type \in {"pitch", "drum_pitch"}
                  THEN Append(before, token_to_info[token].value)
                  ELSE before
             ELSE before

RECURSIVE CollectPitches(_, _)
\* the list pitches after the first n tokens of the loop
CollectPitches(toks, n) ==
    IF n = 0 THEN <<>>
    ELSE LET before == CollectPitches(toks, n - 1)
             token == toks[n]
         IN  IF token \in DOMAIN token_to_info
             THEN IF token_to_info[token].type = "pitch"
                  THEN Append(before, token_to_info[token].value)
                  ELSE before
             ELSE before

\* min(pitches)
MinOf(pitches) ==
    CHOOSE m \in {pitches[i] : i \in 1..Len(pitches)} :
        \A i \in 1..Len(pitches) : m <= pitches[i]

\* MaxOf written with min: current_max is the lowest pitch
MaxOfIsMin(pitches) ==
    CHOOSE m \in {pitches[i] : i \in 1..Len(pitches)} :
        \A i \in 1..Len(pitches) : m <= pitches[i]

\* max(pitches)
MaxOf(pitches) ==
    CHOOSE m \in {pitches[i] : i \in 1..Len(pitches)} :
        \A i \in 1..Len(pitches) : m >= pitches[i]

\* CurrentCenter rounded up instead of down
CurrentCenterRoundsUp(current_min, current_max) ==
    (current_min + current_max + 1) \div 2

\* (current_min + current_max) // 2
CurrentCenter(current_min, current_max) == (current_min + current_max) \div 2

\* the two clamp branches applied to the candidate
Clamp(current_min, current_max, candidate) ==
    IF current_min + candidate < min_pitch
    THEN min_pitch - current_min
    ELSE IF current_max + candidate > max_pitch
    THEN max_pitch - current_max
    ELSE candidate

FindOptimalTranspose(toks) ==
    LET pitches == CollectPitches(toks, Len(toks))
    IN  IF pitches = <<>> THEN 0
        ELSE LET current_min == MinOf(pitches)
                 current_max == MaxOf(pitches)
                 current_center == CurrentCenter(current_min, current_max)
                 candidate == mid_pitch - current_center
             IN  Clamp(current_min, current_max, candidate)

(***************************************************************************)
(* transpose_tokens: [ok |-> TRUE, seq |-> list] or the failure value None *)
(***************************************************************************)
None == [ok |-> FALSE, seq |-> <<>>]

Some(list) == [ok |-> TRUE, seq |-> list]

\* OutOfRange with the two comparisons off by one
OutOfRangeOffByOne(new_pitch) == new_pitch <= min_pitch \/ new_pitch >= max_pitch

\* new_pitch < self.min_pitch or new_pitch > self.max_pitch
OutOfRange(new_pitch) == new_pitch < min_pitch \/ new_pitch > max_pitch

RECURSIVE TransposeLoopDropsUnknown(_, _, _, _)
\* TransposeLoop without the final else: an id that is not in token_to_info
\* is not appended
TransposeLoopDropsUnknown(toks, transpose_steps, i, result) ==
    IF i > Len(toks) THEN Some(result)
    ELSE LET token == toks[i]
         IN  IF token \in DOMAIN token_to_info
             THEN IF token_to_info[token].type = "pitch"
                  THEN LET new_pitch == token_to_info[token].value + transpose_steps
                           new_token_name == PitchTokenName(new_pitch)
                       IN  IF OutOfRange(new_pitch)
                           THEN None
                           ELSE IF InVocab(vocab, new_token_name)
                           THEN TransposeLoopDropsUnknown(toks, transpose_steps, i + 1,
                                    Append(result, VocabId(vocab, new_token_name)))
                           ELSE None
                  ELSE TransposeLoopDropsUnknown(toks, transpose_steps, i + 1,
                           Append(result, token))
             ELSE TransposeLoopDropsUnknown(toks, transpose_steps, i + 1, result)

RECURSIVE TransposeLoop(_, _, _, _)
\* the for loop from token i on, with the list result built so far
TransposeLoop(toks, transpose_steps, i, result) ==
    IF i > Len(toks) THEN Some(result)
    ELSE LET token == toks[i]
         IN  IF token \in DOMAIN token_to_info
             THEN IF token_to_info[token].type = "pitch"
                  THEN LET new_pitch == token_to_info[token].value + transpose_steps
                           new_token_name == PitchTokenName(new_pitch)
                       IN  IF OutOfRange(new_pitch)
                           THEN None
                           ELSE IF InVocab(vocab, new_token_name)
                           THEN TransposeLoop(toks, transpose_steps, i + 1,
                                    Append(result, VocabId(vocab, new_token_name)))
                           ELSE None
                  ELSE TransposeLoop(toks, transpose_steps, i + 1, Append(result, token))
             ELSE TransposeLoop(toks, transpose_steps, i + 1, Append(result, token))

\* ZeroSteps without the shortcut: steps 0 goes through the loop
ZeroStepsThroughLoop(toks) == TransposeLoop(toks, 0, 1, <<>>)

\* the branch taken when transpose_steps == 0: tokens.copy()
ZeroSteps(toks) == Some(toks)

TransposeTokens(toks, transpose_steps) ==
    IF transpose_steps = 0 THEN ZeroSteps(toks)
    ELSE TransposeLoop(toks, transpose_steps, 1, <<>>)

(***************************************************************************)
(* augment_sequence: the list of (actual_transpose, transposed_tokens)     *)
(***************************************************************************)
Result(actual_transpose, transposed_tokens) ==
    [transpose |-> actual_transpose, tokens |-> transposed_tokens]

RECURSIVE AugmentLoopStopsAtFailure(_, _, _, _)
\* AugmentLoop that returns at the first offset that fails
AugmentLoopStopsAtFailure(toks, optimal, i, results) ==
    IF i > Len(transpose_values) THEN results
    ELSE LET actual_transpose == optimal + transpose_values[i]
             transposed_tokens == TransposeTokens(toks, actual_transpose)
         IN  IF transposed_tokens.ok
             THEN AugmentLoopStopsAtFailure(toks, optimal, i + 1,
                      Append(results, Result(actual_transpose, transposed_tokens.seq)))
             ELSE results

RECURSIVE AugmentLoop(_, _, _, _)
\* the for loop from the i-th transpose value on, with the list results so far
AugmentLoop(toks, optimal, i, results) ==
    IF i > Len(transpose_values) THEN results
    ELSE LET actual_transpose == optimal + transpose_values[i]
             transposed_tokens == TransposeTokens(toks, actual_transpose)
         IN  IF transposed_tokens.ok
             THEN AugmentLoop(toks, optimal, i + 1,
                      Append(results, Result(actual_transpose, transposed_tokens.seq)))
             ELSE AugmentLoop(toks, optimal, i + 1, results)

AugmentSequence(toks) ==
    AugmentLoop(toks, FindOptimalTranspose(toks), 1, <<>>)

(***************************************************************************)
(* process_jsonl_file: the lines of the input file and the loop body.      *)
(***************************************************************************)
\* a line whose JSON object has the field 'tokens'
TokensLine(list) == [kind |-> "tokens", list |-> list]
\* a line whose JSON object has no 'tokens' but the field 'ids'
IdsLine(list) == [kind |-> "ids", list |-> list]
\* a line whose JSON object has neither field
NoFieldLine == [kind |-> "none", list |-> <<>>]
\* a line json.loads rejects
BadJsonLine == [kind |-> "bad", list |-> <<>>]

\* token lists of the input records
RecordLists ==
    { <<>>, <<1>>, <<3>>, <<0, 4>>, <<0, 5>>, <<1, 4>>, <<0, 4, 2>>, <<5, 7>>,
      <<4, 0, 3>> }

InputLines ==
    {TokensLine(l) : l \in RecordLists} \cup {IdsLine(<<1>>), NoFieldLine, BadJsonLine}

\* max_samples: 0 stands for None (both are falsy at line 200)
MaxSamplesValues == {0, 1}

\* the dictionary new_data written for one result
NewData(record, transposed_tokens, actual_transpose, base_transpose, optimal) ==
    [ source |-> record,
      tokens |-> transposed_tokens,
      augment |-> [ transpose |-> actual_transpose,
                    base_transpose |-> base_transpose,
                    optimal_transpose |-> optimal ] ]

\* BaseTranspose without the subtraction of the optimal offset
BaseTransposeIsActual(toks, actual_transpose) == actual_transpose

\* base_transpose = actual_transpose - self.find_optimal_transpose(tokens)
BaseTranspose(toks, actual_transpose) ==
    actual_transpose - FindOptimalTranspose(toks)

RECURSIVE WriteLoop(_, _, _, _, _, _)
\* the loop over augmented_results from its i-th entry on: the output files
\* and the counter total_augmented after it
WriteLoop(record, toks, results, i, files, augmented) ==
    IF i > Len(results) THEN [files |-> files, total_augmented |-> augmented]
    ELSE LET actual_transpose == results[i].transpose
             base_transpose == BaseTranspose(toks, actual_transpose)
         IN  IF base_transpose \in DOMAIN files
             THEN WriteLoop(record, toks, results, i + 1,
                      [files EXCEPT ![base_transpose] =
                          Append(@, NewData(record, results[i].tokens, actual_transpose,
                                            base_transpose, FindOptimalTranspose(toks)))],
                      augmented + 1)
             ELSE WriteLoop(record, toks, results, i + 1, files, augmented)

NoCall ==
    [ op |-> "none", steps |-> 0, ok |-> FALSE, ret |-> <<>>, value |-> 0,
      back_ok |-> FALSE, back |-> <<>>, results |-> <<>> ]

\* the state after TransposeAugmenter(vocab_file, transpose_range) and the
\* first statements of process_jsonl_file (the output files opened, empty)
Construct(v, range, samples) ==
    /\ vocab = v
    /\ token_to_info = BuildTokenInfo(v, Len(v))
    /\ transpose_values = RangeList(range[1], range[2])
    /\ max_samples = samples
    /\ pc = "loop"
    /\ line_num = 0
    /\ data = NoFieldLine
    /\ tokens = <<>>
    /\ optimal_transpose = 0
    /\ augmented_results = <<>>
    /\ output_files =
           [d \in {transpose_values[i] : i \in 1..Len(transpose_values)} |-> <<>>]
    /\ total_processed = 0
    /\ total_augmented = 0
    /\ call = NoCall

Init ==
    \E v \in Vocabularies, range \in TransposeRanges, samples \in MaxSamplesValues :
        Construct(v, range, samples)

\* the test of line 200
SamplesReached == max_samples # 0 /\ total_processed >= max_samples

\* one iteration of the loop for a record that has a token list
ProcessLine(line) ==
    /\ pc = "loop"
    /\ line_num < MaxLines
    /\ ~SamplesReached
    /\ line.kind \in {"tokens", "ids"}
    /\ LET results == AugmentSequence(line.list)
           written == WriteLoop(line, line.list, results, 1, output_files, total_augmented)
       IN  /\ line_num' = line_num + 1
           /\ data' = line
           /\ tokens' = line.list
           /\ optimal_transpose' = FindOptimalTranspose(line.list)
           /\ augmented_results' = results
           /\ output_files' = written.files
           /\ total_augmented' = written.total_augmented
           /\ total_processed' = total_processed + 1
    /\ UNCHANGED <<selfVars, max_samples, pc, call>>

\* a record with neither 'tokens' nor 'ids': warned about and skipped
SkipNoField(line) ==
    /\ pc = "loop"
    /\ line_num < MaxLines
    /\ ~SamplesReached
    /\ line.kind = "none"
    /\ line_num' = line_num + 1
    /\ data' = line
    /\ UNCHANGED <<selfVars, max_samples, pc, tokens, optimal_transpose,
                   augmented_results, output_files, total_processed,
                   total_augmented, call>>

\* json.JSONDecodeError: reported, the loop continues; data keeps its old value
SkipBadJson(line) ==
    /\ pc = "loop"
    /\ line_num < MaxLines
    /\ ~SamplesReached
    /\ line.kind = "bad"
    /\ line_num' = line_num + 1
    /\ UNCHANGED <<selfVars, max_samples, pc, data, tokens, optimal_transpose,
                   augmented_results, output_files, total_processed,
                   total_augmented, call>>

\* the break of line 201: a further line was read, max_samples is reached
BreakAtMaxSamples ==
    /\ pc = "loop"
    /\ line_num < MaxLines
    /\ SamplesReached
    /\ line_num' = line_num + 1
    /\ pc' = "done"
    /\ UNCHANGED <<selfVars, max_samples, data, tokens, optimal_transpose,
                   augmented_results, output_files, total_processed,
                   total_augmented, call>>

\* the input file has no further line: the output files are closed
EndOfFile ==
    /\ pc = "loop"
    /\ pc' = "done"
    /\ UNCHANGED <<selfVars, max_samples, line_num, data, tokens, optimal_transpose,
                   augmented_results, output_files, total_processed,
                   total_augmented, call>>

Next ==
    \/ \E line \in InputLines : ProcessLine(line)
    \/ \E line \in InputLines : SkipNoField(line)
    \/ \E line \in InputLines : SkipBadJson(line)
    \/ BreakAtMaxSamples
    \/ EndOfFile

Spec == Init /\ [][Next]_vars

(***************************************************************************)
(* A caller of the engine: it builds a token list and calls one method.    *)
(***************************************************************************)
InitApi == \E v \in Vocabularies : Construct(v, DefaultRange, 0)

\* steps a caller passes to transpose_tokens
StepValues == {-88, -2, -1, 0, 1, 2, 88}

\* the caller appends a token to its list before any call
AppendToken(token) ==
    /\ call.op = "none"
    /\ Len(tokens) < MaxLen
    /\ tokens' = Append(tokens, token)
    /\ UNCHANGED <<selfVars, fileVars, call>>

CallFindOptimalTranspose ==
    /\ call.op = "none"
    /\ call' = [call EXCEPT !.op = "find_optimal_transpose",
                            !.value = FindOptimalTranspose(tokens)]
    /\ UNCHANGED <<selfVars, fileVars, tokens>>

CallTransposeTokens(transpose_steps) ==
    /\ call.op = "none"
    /\ LET r == TransposeTokens(tokens, transpose_steps)
       IN  call' = [call EXCEPT !.op = "transpose_tokens", !.steps = transpose_steps,
                                !.ok = r.ok, !.ret = r.seq]
    /\ UNCHANGED <<selfVars, fileVars, tokens>>

\* the caller transposes a successful result back by the opposite steps
CallTransposeBack ==
    /\ call.op = "transpose_tokens"
    /\ call.ok
    /\ LET r == TransposeTokens(call.ret, -call.steps)
       IN  call' = [call EXCEPT !.op = "round_trip", !.back_ok = r.ok, !.back = r.seq]
    /\ UNCHANGED <<selfVars, fileVars, tokens>>

CallAugmentSequence ==
    /\ call.op = "none"
    /\ call' = [call EXCEPT !.op = "augment_sequence",
                            !.value = FindOptimalTranspose(tokens),
                            !.results = AugmentSequence(tokens)]
    /\ UNCHANGED <<selfVars, fileVars, tokens>>

NextApi ==
    \/ \E token \in TokenIds : AppendToken(token)
    \/ CallFindOptimalTranspose
    \/ \E transpose_steps \in StepValues : CallTransposeTokens(transpose_steps)
    \/ CallTransposeBack
    \/ CallAugmentSequence

SpecApi == InitApi /\ [][NextApi]_vars

(***************************************************************************)
(* Notions the properties below are stated with.                           *)
(***************************************************************************)
\* the positions of toks that hold a token classified as pitch
PitchPositions(toks) == {i \in 1..Len(toks) : IsPitchToken(toks[i])}

\* the pitch values occurring in toks
PitchValues(toks) == {token_to_info[toks[i]].value : i \in PitchPositions(toks)}

Lowest(S) == CHOOSE m \in S : \A x \in S : m <= x

Highest(S) == CHOOSE m \in S : \A x \in S : m >= x

\* current_max - current_min of a list that has a pitch token
PitchSpan(toks) == Highest(PitchValues(toks)) - Lowest(PitchValues(toks))

InRange(p) == min_pitch <= p /\ p <= max_pitch

\* the offset steps is infeasible for toks: it moves a pitch token out of the
\* range or to a token string the vocabulary does not hold
Infeasible(toks, steps) ==
    \E v \in PitchValues(toks) :
        \/ v + steps < min_pitch
        \/ v + steps > max_pitch
        \/ ~InVocab(vocab, PitchTokenName(v + steps))

\* toks with token inserted after position p, and toks without position p
InsertAt(toks, p, token) ==
    SubSeq(toks, 1, p) \o <<token>> \o SubSeq(toks, p + 1, Len(toks))

RemoveAt(toks, p) == SubSeq(toks, 1, p - 1) \o SubSeq(toks, p + 1, Len(toks))

UniqueIds(v) == \A i, j \in 1..Len(v) : v[i].idx = v[j].idx => i = j

\* no two Pitch_ keys of the vocabulary are parsed to the same pitch value
OneKeyPerPitch(v) ==
    \A i, j \in 1..Len(v) :
        ( /\ v[i].name.tag = "Pitch"
          /\ v[j].name.tag = "Pitch"
          /\ ParseInt(v[i].name.num) = ParseInt(v[j].name.num) ) => i = j

\* the set of configured offsets
Offsets == {transpose_values[i] : i \in 1..Len(transpose_values)}

(***************************************************************************)
(* Properties of find_optimal_transpose, under SpecApi.                    *)
(***************************************************************************)
FindOptimalReturned == call.op = "find_optimal_transpose"

\* C1 as stated: for every token sequence that has a pitch token, whatever the
\* distance of its lowest and highest pitch, the returned offset moves every
\* pitch value of the sequence into [min_pitch, max_pitch].
C1_EveryPitchInRange ==
    FindOptimalReturned =>
        \A v \in PitchValues(tokens) : InRange(v + call.value)

\* C1 amended: when the lowest and the highest pitch of the sequence are at
\* most max_pitch - min_pitch = 88 apart, the returned offset moves every pitch
\* value of the sequence into [min_pitch, max_pitch], wherever the values lay.
C1_InRangeWhenSpanFits ==
    (FindOptimalReturned /\ PitchValues(tokens) # {}
        /\ PitchSpan(tokens) <= max_pitch - min_pitch) =>
        \A v \in PitchValues(tokens) : InRange(v + call.value)

\* a sequence of span exactly 88 with a pitch outside the range, which the
\* offset brings into it
C1_Witness ==
    /\ FindOptimalReturned
    /\ PitchValues(tokens) # {}
    /\ PitchSpan(tokens) = max_pitch - min_pitch
    /\ \E v \in PitchValues(tokens) : ~InRange(v)
    /\ call.value # 0

\* C7: find_optimal_transpose looks at pitch tokens only: the result is 0 for
\* a sequence without pitch tokens, and it does not change when a drum_pitch,
\* chord, other or unknown token is inserted anywhere or removed.
C7_OnlyPitchTokensCount ==
    FindOptimalReturned =>
        /\ PitchPositions(tokens) = {} => call.value = 0
        /\ \A p \in 0..Len(tokens), token \in TokenIds :
               ~IsPitchToken(token) =>
                   FindOptimalTranspose(InsertAt(tokens, p, token)) = call.value
        /\ \A p \in (1..Len(tokens)) \ PitchPositions(tokens) :
               FindOptimalTranspose(RemoveAt(tokens, p)) = call.value

\* a sequence that mixes a pitch token with a drum pitch and an unknown id
C7_Witness ==
    /\ FindOptimalReturned
    /\ PitchPositions(tokens) # {}
    /\ \E i \in 1..Len(tokens) :
           /\ tokens[i] \in DOMAIN token_to_info
           /\ token_to_info[tokens[i]].type = "drum_pitch"
    /\ \E i \in 1..Len(tokens) : tokens[i] \notin DOMAIN token_to_info
    /\ call.value # 0

\* C9: for a sequence with a pitch token whose span is at most 88, neither
\* clamp condition holds of the candidate 65 - current_center, the result is
\* that candidate, and the centre of the shifted range is exactly mid_pitch.
C9_CentredWhenSpanFits ==
    (FindOptimalReturned /\ PitchValues(tokens) # {}
        /\ PitchSpan(tokens) <= 88) =>
        LET lo == Lowest(PitchValues(tokens))
            hi == Highest(PitchValues(tokens))
            candidate == 65 - ((lo + hi) \div 2)
        IN  /\ ~(lo + candidate < min_pitch)
            /\ ~(hi + candidate > max_pitch)
            /\ call.value = candidate
            /\ ((lo + call.value) + (hi + call.value)) \div 2 = 65

\* a sequence of two different pitches with an odd sum, shifted by a
\* non-zero offset
C9_Witness ==
    /\ FindOptimalReturned
    /\ PitchValues(tokens) # {}
    /\ PitchSpan(tokens) <= 88
    /\ (Lowest(PitchValues(tokens)) + Highest(PitchValues(tokens))) % 2 = 1
    /\ call.value # 0

(***************************************************************************)
(* Properties of transpose_tokens, under SpecApi.                          *)
(***************************************************************************)
TransposeReturned == call.op = "transpose_tokens"

\* C4: with steps # 0 the call fails exactly when some pitch token of the
\* sequence would leave [21, 109] or land on a token string the vocabulary
\* does not hold; with steps = 0 it never fails.  Pitch_21 with steps -1 and
\* Pitch_109 with steps +1 fail.
C4_FailsIffInfeasible ==
    TransposeReturned =>
        /\ call.steps # 0 => (~call.ok <=> Infeasible(tokens, call.steps))
        /\ call.steps = 0 => call.ok
        /\ (21 \in PitchValues(tokens) /\ call.steps = -1) => ~call.ok
        /\ (109 \in PitchValues(tokens) /\ call.steps = 1) => ~call.ok

\* a failure on a gap of the vocabulary: every shifted pitch is in the range
C4_Witness ==
    /\ TransposeReturned
    /\ call.steps # 0
    /\ ~call.ok
    /\ PitchValues(tokens) # {}
    /\ \A v \in PitchValues(tokens) : InRange(v + call.steps)

\* what a successful call returned, position by position, when a pitch
\* position holds the id of "Pitch_{v + steps}"
SucceededAsShift ==
    /\ Len(call.ret) = Len(tokens)
    /\ \A i \in 1..Len(tokens) :
           IF IsPitchToken(tokens[i])
           THEN LET name == PitchTokenName(token_to_info[tokens[i]].value + call.steps)
                IN  InVocab(vocab, name) /\ call.ret[i] = VocabId(vocab, name)
           ELSE call.ret[i] = tokens[i]

\* a failing call returned the failure value and nothing else
FailedWhole == call.ret = <<>>

\* C5 as stated: a successful call returns a list of the same length that
\* holds, at each pitch position, the vocabulary id of "Pitch_{v + steps}" and
\* everywhere else the input token; a failing call returns only the failure
\* value; the call leaves the input sequence as it was.
C5_ShiftAtEveryStep ==
    [][ (call.op = "none" /\ call'.op = "transpose_tokens") =>
            /\ tokens' = tokens
            /\ IF call'.ok THEN SucceededAsShift' ELSE FailedWhole' ]_vars

\* C5 amended: as stated when steps # 0; with steps = 0 the call returns the
\* input list element for element (a pitch token keeps its own id, which is
\* the id of "Pitch_{v}" only when that is the token's own string).
C5_ShiftOrCopy ==
    [][ (call.op = "none" /\ call'.op = "transpose_tokens") =>
            /\ tokens' = tokens
            /\ IF ~call'.ok THEN FailedWhole'
               ELSE IF call'.steps = 0 THEN call'.ret = tokens
               ELSE SucceededAsShift' ]_vars

\* a successful shift of a sequence that holds a pitch token, a drum pitch
\* and an unknown id
C5_Witness ==
    /\ TransposeReturned
    /\ call.ok
    /\ call.steps # 0
    /\ PitchPositions(tokens) # {}
    /\ \E i \in 1..Len(tokens) :
           /\ tokens[i] \in DOMAIN token_to_info
           /\ token_to_info[tokens[i]].type = "drum_pitch"
    /\ \E i \in 1..Len(tokens) : tokens[i] \notin DOMAIN token_to_info

RoundTripReturned == call.op = "round_trip" /\ call.back_ok

\* C6 as stated: for a vocabulary with unique ids, when transpose_tokens(seq, k)
\* and transpose_tokens of its result by -k both succeed, the second result
\* equals seq.
C6_RoundTrip ==
    (UniqueIds(vocab) /\ RoundTripReturned) => call.back = tokens

\* C6 amended: the same, for a vocabulary with unique ids in which no two
\* Pitch_ keys are parsed to the same pitch value.
C6_RoundTripOneKeyPerPitch ==
    (UniqueIds(vocab) /\ OneKeyPerPitch(vocab) /\ RoundTripReturned) =>
        call.back = tokens

\* a round trip by a non-zero k over a sequence with a pitch token and a
\* token that is no pitch
C6_Witness ==
    /\ UniqueIds(vocab)
    /\ OneKeyPerPitch(vocab)
    /\ RoundTripReturned
    /\ call.steps # 0
    /\ PitchPositions(tokens) # {}
    /\ PitchPositions(tokens) # 1..Len(tokens)

\* C8: transpose_tokens(seq, 0) succeeds and returns a list equal to seq for
\* every seq, and no call of find_optimal_transpose, transpose_tokens or
\* augment_sequence changes the input sequence, the vocabulary or the table.
C8_IdentityAndNoMutation ==
    [][ (call' # call) =>
            /\ tokens' = tokens
            /\ vocab' = vocab
            /\ token_to_info' = token_to_info
            /\ (call'.op = "transpose_tokens" /\ call'.steps = 0) =>
                   (call'.ok /\ call'.ret = tokens) ]_vars

\* steps = 0 on a sequence with an unknown id and a pitch outside the range
C8_Witness ==
    /\ TransposeReturned
    /\ call.steps = 0
    /\ \E v \in PitchValues(tokens) : ~InRange(v)
    /\ \E i \in 1..Len(tokens) : tokens[i] \notin DOMAIN token_to_info

(***************************************************************************)
(* Properties of augment_sequence and of the routing of its results in     *)
(* process_jsonl_file, under Spec.  After a record was processed, tokens   *)
(* is its token list and augmented_results what augment_sequence returned. *)
(***************************************************************************)
RecordProcessed == total_processed > 0

\* the indices of the configured offsets whose transpose call succeeds, given
\* the offset optimal computed once
Succeeding(toks, optimal) ==
    {i \in 1..Len(transpose_values) :
        TransposeTokens(toks, optimal + transpose_values[i]).ok}

\* the k-th smallest element of a set of indices
Kth(S, k) == CHOOSE i \in S : Cardinality({j \in S : j < i}) = k - 1

\* C2: augment_sequence returns exactly the pairs (optimal + d, transposed
\* sequence) of the configured offsets d whose transpose call succeeds, in
\* configured order; failing offsets are skipped and later ones still tried;
\* the applied offsets are strictly increasing and there are at most
\* len(transpose_values) results.
C2_ResultsAreSucceedingOffsetsInOrder ==
    RecordProcessed =>
        LET optimal == FindOptimalTranspose(tokens)
            S == Succeeding(tokens, optimal)
        IN  /\ Len(augmented_results) = Cardinality(S)
            /\ \A k \in 1..Len(augmented_results) :
                   LET actual == optimal + transpose_values[Kth(S, k)]
                   IN  /\ augmented_results[k].transpose = actual
                       /\ augmented_results[k].tokens = TransposeTokens(tokens, actual).seq
            /\ \A k \in 1..(Len(augmented_results) - 1) :
                   augmented_results[k].transpose < augmented_results[k + 1].transpose
            /\ Len(augmented_results) <= Len(transpose_values)

\* a record for which an offset fails and a later configured offset succeeds
C2_Witness ==
    /\ RecordProcessed
    /\ Len(augmented_results) >= 2
    /\ \E i, j \in 1..Len(transpose_values) :
           /\ i < j
           /\ i \notin Succeeding(tokens, optimal_transpose)
           /\ j \in Succeeding(tokens, optimal_transpose)

\* C3: augment_sequence produces no result for a configured offset d when
\* optimal + d moves a pitch token of the sequence out of [21, 109] or to a
\* token string the vocabulary does not hold, also when optimal + d = 0; so
\* every returned sequence has all its pitch values inside [21, 109].
C3_NoResultForInfeasibleOffset ==
    RecordProcessed =>
        /\ \A d \in Offsets :
               Infeasible(tokens, optimal_transpose + d) =>
                   \A k \in 1..Len(augmented_results) :
                       augmented_results[k].transpose # optimal_transpose + d
        /\ \A k \in 1..Len(augmented_results) :
               \A v \in PitchValues(augmented_results[k].tokens) : InRange(v)

\* the records written for one input record, stream by stream
RoutedOnce ==
    /\ \A k \in 1..Len(augmented_results') :
           LET r == augmented_results'[k]
               d == r.transpose - FindOptimalTranspose(tokens')
           IN  /\ d \in Offsets
               /\ d \in DOMAIN output_files
               /\ Len(output_files'[d]) = Len(output_files[d]) + 1
               /\ LET new_data == output_files'[d][Len(output_files'[d])]
                  IN  /\ new_data.tokens = r.tokens
                      /\ new_data.source = data'
                      /\ new_data.augment.transpose = r.transpose
                      /\ new_data.augment.base_transpose = d
                      /\ new_data.augment.base_transpose
                             + new_data.augment.optimal_transpose = r.transpose
    /\ \A d \in DOMAIN output_files :
           /\ Len(output_files'[d]) <= Len(output_files[d]) + 1
           /\ SubSeq(output_files'[d], 1, Len(output_files[d])) = output_files[d]
           /\ (\A k \in 1..Len(augmented_results') :
                   augmented_results'[k].transpose # FindOptimalTranspose(tokens') + d)
                  => output_files'[d] = output_files[d]
    /\ DOMAIN output_files' = DOMAIN output_files
    /\ total_augmented' = total_augmented + Len(augmented_results')

\* C10: for a record with a token list, every pair augment_sequence returned
\* is written exactly once, to the stream of its base offset d = actual -
\* optimal, which is a configured offset; each stream receives at most one
\* record, base_transpose + optimal_transpose equals transpose, and
\* total_augmented grows by the number of results.
C10_EachResultRoutedOnce ==
    [][ (total_processed' = total_processed + 1) => RoutedOnce ]_vars

\* a second record processed with a non-zero optimal offset and two or more
\* results, after a first one had written to the streams
C10_Witness ==
    /\ total_processed = 2
    /\ optimal_transpose # 0
    /\ Len(augmented_results) >= 2
    /\ total_augmented > Len(augmented_results)

====
